---- MODULE Spec2Model ----
(***************************************************************************)
(* ElevenLabsTTSService (src/pipecat/services/elevenlabs.py): one adapter   *)
(* instance, its configuration fields, and the run_tts async generators     *)
(* that are created on it.  Every await of run_tts is a scheduling point,   *)
(* so each awaited statement is one action and other coroutines (other      *)
(* run_tts calls, set_model, set_voice) may run between two of them.        *)
(***************************************************************************)
EXTENDS Naturals, Sequences, FiniteSets

(* ------------------------------ bounds --------------------------------- *)

\* The vendor delivers at most MaxChunks chunks, over all the calls together.
MaxChunks == 3

\* The run_tts calls made on the adapter.
CallIds == {"a", "b"}

\* The byte chunks the vendor may deliver.
Chunks == {"b1", "b2"}

\* The texts passed to run_tts.
Texts == {"hello"}

\* The voices and models passed to the constructor, set_voice and set_model.
DefaultModel == "eleven_turbo_v2_5"
Voices == {"v1", "v2"}
Models == {DefaultModel, "eleven_multilingual_v2"}

\* InputParams.output_format
OutputFormats == {"pcm_16000", "pcm_22050", "pcm_24000", "pcm_44100"}

\* Strings passed to sample_rate_from_output_format when it is called directly.
FormatStrings ==
    OutputFormats \cup {"", "pcm_8000", "pcm_48000", "PCM_24000", "pcm_44100 ",
                        "mp3_44100_128", "ulaw_8000", "16000"}

\* Constructor arguments of the adapter whose calls are explored: none of them
\* is the default, so a request or a frame built from defaults differs.
ConstructorArgs ==
    { [output_format |-> "pcm_24000", voice_settings |-> "VoiceSettings",
       optimize_streaming_latency |-> 3] }

(* ------------------------------- state --------------------------------- *)

VARIABLES
    voice_id,                   \* self._voice_id
    model,                      \* self._model
    output_format,              \* self._params.output_format
    voice_settings,             \* self._voice_settings
    optimize_streaming_latency, \* self._optimize_streaming_latency
    sample_rate,                \* self._sample_rate
    pc,                         \* per call: the statement of run_tts it is at
    text,                       \* per call: the argument of run_tts
    tts_started,                \* per call: the local flag of run_tts
    audio,                      \* per call: the loop variable of run_tts
    delivered,                  \* per call: the chunks the vendor delivered so far
    trace,                      \* per call: what the call did, in order
    last_voice_arg,             \* the voice last passed to __init__ / set_voice
    last_model_arg,             \* the model last passed to __init__ / set_model
    entry_cfg,                  \* per call, from run_tts(...) until its request: the
                                \* voice and model stored when run_tts was called
    telemetry_cfg,              \* per call, from its start_tts_usage_metrics until its
                                \* request: the voice and model stored at that await
    fmt_arg,                    \* argument of a direct sample_rate_from_output_format call
    rate_ret                    \* what that call returned

config == <<voice_id, model, output_format, voice_settings,
            optimize_streaming_latency, sample_rate>>
calls  == <<pc, text, tts_started, audio, delivered, trace>>
ghost  == <<last_voice_arg, last_model_arg, entry_cfg, telemetry_cfg>>
probe  == <<fmt_arg, rate_ret>>
vars   == <<config, calls, ghost, probe>>

(* --------------------------- pure functions ---------------------------- *)

\* sample_rate_from_output_format with another fallback rate.
sample_rate_from_output_formatDefault22050(fmt) ==
    CASE fmt = "pcm_16000" -> 16000
      [] fmt = "pcm_22050" -> 22050
      [] fmt = "pcm_24000" -> 24000
      [] fmt = "pcm_44100" -> 44100
      [] OTHER -> 22050

sample_rate_from_output_format(fmt) ==
    CASE fmt = "pcm_16000" -> 16000
      [] fmt = "pcm_22050" -> 22050
      [] fmt = "pcm_24000" -> 24000
      [] fmt = "pcm_44100" -> 44100
      [] OTHER -> 16000

\* The events a call appends to its trace.
StartTtsUsageMetricsEvent(t) == [kind |-> "start_tts_usage_metrics", text |-> t]
StartTtfbMetricsEvent == [kind |-> "start_ttfb_metrics"]
StopTtfbMetricsEvent == [kind |-> "stop_ttfb_metrics"]
TTSStartedFrame == [kind |-> "TTSStartedFrame"]
TTSStoppedFrame == [kind |-> "TTSStoppedFrame"]
RaisedEvent == [kind |-> "raise"]

NumChannels == 1

AudioRawFrame(bytes, rate, channels) ==
    [kind |-> "AudioRawFrame", audio |-> bytes, sample_rate |-> rate,
     num_channels |-> channels]

\* The request built from the voice and model stored when run_tts was called.
GenerateRequestSnapshot(c) ==
    [kind |-> "generate",
     text |-> text[c],
     voice |-> entry_cfg[c].voice,
     model |-> entry_cfg[c].model,
     output_format |-> output_format,
     voice_settings |-> voice_settings,
     optimize_streaming_latency |-> optimize_streaming_latency,
     stream |-> TRUE]

\* The request built from the voice and model read when the body of run_tts
\* started, at its first await.
GenerateRequestAtTelemetry(c) ==
    [kind |-> "generate",
     text |-> text[c],
     voice |-> telemetry_cfg[c].voice,
     model |-> telemetry_cfg[c].model,
     output_format |-> output_format,
     voice_settings |-> voice_settings,
     optimize_streaming_latency |-> optimize_streaming_latency,
     stream |-> TRUE]

\* The keyword arguments of self._client.generate(...) in call c
GenerateRequest(c) ==
    [kind |-> "generate",
     text |-> text[c],
     voice |-> voice_id,
     model |-> model,
     output_format |-> output_format,
     voice_settings |-> voice_settings,
     optimize_streaming_latency |-> optimize_streaming_latency,
     stream |-> TRUE]

NoCfg == [voice |-> "none", model |-> "none"]

(* ------------------------------- Init ---------------------------------- *)

\* __init__ with the given arguments, no run_tts call made yet.
Constructed(args, v, m) ==
    /\ voice_id = v
    /\ model = m
    /\ output_format = args.output_format
    /\ voice_settings = args.voice_settings
    /\ optimize_streaming_latency = args.optimize_streaming_latency
    /\ sample_rate = sample_rate_from_output_format(args.output_format)
    /\ last_voice_arg = v
    /\ last_model_arg = m
    /\ pc = [c \in CallIds |-> "idle"]
    /\ text = [c \in CallIds |-> ""]
    /\ tts_started = [c \in CallIds |-> FALSE]
    /\ audio = [c \in CallIds |-> ""]
    /\ delivered = [c \in CallIds |-> <<>>]
    /\ trace = [c \in CallIds |-> <<>>]
    /\ entry_cfg = [c \in CallIds |-> NoCfg]
    /\ telemetry_cfg = [c \in CallIds |-> NoCfg]

Init ==
    /\ \E args \in ConstructorArgs : Constructed(args, "v1", DefaultModel)
    /\ fmt_arg = "none"
    /\ rate_ret = 0

(* ------------------------------ actions -------------------------------- *)

RECURSIVE DeliveredIn(_)
DeliveredIn(S) ==
    IF S = {} THEN 0
    ELSE LET c == CHOOSE x \in S : TRUE
         IN  Len(delivered[c]) + DeliveredIn(S \ {c})

Emit(c, e) == trace' = [trace EXCEPT ![c] = Append(@, e)]

\* set_model that assigns a local name instead of self._model.
SetModelNotStored(m) ==
    /\ last_model_arg' = m
    /\ UNCHANGED <<config, last_voice_arg, entry_cfg, telemetry_cfg>>
    /\ UNCHANGED <<calls, probe>>

\* set_model(model)
SetModel(m) ==
    /\ model' = m
    /\ last_model_arg' = m
    /\ UNCHANGED <<voice_id, output_format, voice_settings,
                   optimize_streaming_latency, sample_rate, last_voice_arg, entry_cfg, telemetry_cfg>>
    /\ UNCHANGED <<calls, probe>>

\* set_voice copied from set_model with the assignment left as self._model = voice.
SetVoiceAssignsModel(v) ==
    /\ model' = v
    /\ last_voice_arg' = v
    /\ UNCHANGED <<voice_id, output_format, voice_settings,
                   optimize_streaming_latency, sample_rate, last_model_arg, entry_cfg, telemetry_cfg>>
    /\ UNCHANGED <<calls, probe>>

\* set_voice(voice)
SetVoice(v) ==
    /\ voice_id' = v
    /\ last_voice_arg' = v
    /\ UNCHANGED <<model, output_format, voice_settings,
                   optimize_streaming_latency, sample_rate, last_model_arg, entry_cfg, telemetry_cfg>>
    /\ UNCHANGED <<calls, probe>>

\* run_tts(text): the call creates the async generator; its body has not run.
RunTts(c, t) ==
    /\ pc[c] = "idle"
    /\ pc' = [pc EXCEPT ![c] = "created"]
    /\ text' = [text EXCEPT ![c] = t]
    /\ entry_cfg' = [entry_cfg EXCEPT ![c] = [voice |-> voice_id, model |-> model]]
    /\ UNCHANGED <<tts_started, audio, delivered, trace>>
    /\ UNCHANGED <<config, last_voice_arg, last_model_arg, telemetry_cfg, probe>>

\* The consumer pulls the generator: the body starts, or resumes after a yield.
Anext(c) ==
    /\ pc[c] \in {"created", "yielded"}
    /\ pc' = [pc EXCEPT ![c] = IF pc[c] = "created" THEN "L78" ELSE "L92"]
    /\ UNCHANGED <<text, tts_started, audio, delivered, trace>>
    /\ UNCHANGED <<config, ghost, probe>>

\* Abandon as if the loop were in a try/finally that pushes TTSStoppedFrame when
\* the generator is closed.
AbandonRunsFinally(c) ==
    /\ pc[c] = "yielded"
    /\ Emit(c, TTSStoppedFrame)
    /\ pc' = [pc EXCEPT ![c] = "abandoned"]
    /\ UNCHANGED <<text, tts_started, audio, delivered>>
    /\ UNCHANGED <<config, ghost, probe>>

\* The consumer stops pulling a generator that is suspended at its yield.
Abandon(c) ==
    /\ pc[c] = "yielded"
    /\ pc' = [pc EXCEPT ![c] = "abandoned"]
    /\ UNCHANGED <<text, tts_started, audio, delivered, trace>>
    /\ UNCHANGED <<config, ghost, probe>>

\* await self.start_tts_usage_metrics(text)
StartTtsUsageMetrics(c) ==
    /\ pc[c] = "L78"
    /\ Emit(c, StartTtsUsageMetricsEvent(text[c]))
    /\ pc' = [pc EXCEPT ![c] = "L79"]
    /\ telemetry_cfg' = [telemetry_cfg EXCEPT ![c] = [voice |-> voice_id, model |-> model]]
    /\ UNCHANGED <<text, tts_started, audio, delivered>>
    /\ UNCHANGED <<config, last_voice_arg, last_model_arg, entry_cfg, probe>>

\* start_ttfb_metrics left out of run_tts.
StartTtfbMetricsSkipped(c) ==
    /\ pc[c] = "L79"
    /\ pc' = [pc EXCEPT ![c] = "L81"]
    /\ UNCHANGED <<text, tts_started, audio, delivered, trace>>
    /\ UNCHANGED <<config, ghost, probe>>

\* await self.start_ttfb_metrics()
StartTtfbMetrics(c) ==
    /\ pc[c] = "L79"
    /\ Emit(c, StartTtfbMetricsEvent)
    /\ pc' = [pc EXCEPT ![c] = "L81"]
    /\ UNCHANGED <<text, tts_started, audio, delivered>>
    /\ UNCHANGED <<config, ghost, probe>>

\* GenerateReturns that pushes TTSStartedFrame as soon as the request returns.
GenerateReturnsEagerStart(c) ==
    /\ pc[c] = "L81"
    /\ trace' = [trace EXCEPT ![c] = @ \o <<GenerateRequest(c), TTSStartedFrame>>]
    /\ tts_started' = [tts_started EXCEPT ![c] = TRUE]
    /\ pc' = [pc EXCEPT ![c] = "L92"]
    /\ entry_cfg' = [entry_cfg EXCEPT ![c] = NoCfg]
    /\ telemetry_cfg' = [telemetry_cfg EXCEPT ![c] = NoCfg]
    /\ UNCHANGED <<text, audio, delivered>>
    /\ UNCHANGED <<config, last_voice_arg, last_model_arg, probe>>

\* results = await self._client.generate(...) returns the stream; tts_started = False
GenerateReturns(c) ==
    /\ pc[c] = "L81"
    /\ Emit(c, GenerateRequest(c))
    /\ tts_started' = [tts_started EXCEPT ![c] = FALSE]
    /\ pc' = [pc EXCEPT ![c] = "L92"]
    /\ entry_cfg' = [entry_cfg EXCEPT ![c] = NoCfg]
    /\ telemetry_cfg' = [telemetry_cfg EXCEPT ![c] = NoCfg]
    /\ UNCHANGED <<text, audio, delivered>>
    /\ UNCHANGED <<config, last_voice_arg, last_model_arg, probe>>

\* A failed request that is caught and issued again.
GenerateRaisesRetry(c) ==
    /\ pc[c] = "L81"
    /\ Emit(c, GenerateRequest(c))
    /\ UNCHANGED <<pc, text, tts_started, audio, delivered>>
    /\ UNCHANGED <<config, ghost, probe>>

\* await self._client.generate(...) raises: nothing in run_tts catches it.
GenerateRaises(c) ==
    /\ pc[c] = "L81"
    /\ trace' = [trace EXCEPT ![c] = @ \o <<GenerateRequest(c), RaisedEvent>>]
    /\ pc' = [pc EXCEPT ![c] = "failed"]
    /\ entry_cfg' = [entry_cfg EXCEPT ![c] = NoCfg]
    /\ telemetry_cfg' = [telemetry_cfg EXCEPT ![c] = NoCfg]
    /\ UNCHANGED <<text, tts_started, audio, delivered>>
    /\ UNCHANGED <<config, last_voice_arg, last_model_arg, probe>>

\* NextChunk with stop_ttfb_metrics inside the "if not tts_started" block.
NextChunkStopOnlyFirst(c, bytes) ==
    /\ pc[c] = "L92"
    /\ DeliveredIn(CallIds) < MaxChunks
    /\ delivered' = [delivered EXCEPT ![c] = Append(@, bytes)]
    /\ audio' = [audio EXCEPT ![c] = bytes]
    /\ pc' = [pc EXCEPT ![c] = IF ~tts_started[c] THEN "L96" ELSE "L99"]
    /\ UNCHANGED <<text, tts_started, trace>>
    /\ UNCHANGED <<config, ghost, probe>>

\* async for audio in results: the vendor delivers the next chunk.
NextChunk(c, bytes) ==
    /\ pc[c] = "L92"
    /\ DeliveredIn(CallIds) < MaxChunks
    /\ delivered' = [delivered EXCEPT ![c] = Append(@, bytes)]
    /\ audio' = [audio EXCEPT ![c] = bytes]
    /\ pc' = [pc EXCEPT ![c] = IF ~tts_started[c] THEN "L96" ELSE "L98"]
    /\ UNCHANGED <<text, tts_started, trace>>
    /\ UNCHANGED <<config, ghost, probe>>

\* The end of the vendor stream swallowed: the loop keeps waiting for a chunk.
StreamEndsSwallowed(c) ==
    /\ pc[c] = "L92"
    /\ UNCHANGED vars

\* async for audio in results: the vendor stream is exhausted.
StreamEnds(c) ==
    /\ pc[c] = "L92"
    /\ pc' = [pc EXCEPT ![c] = "L102"]
    /\ UNCHANGED <<text, tts_started, audio, delivered, trace>>
    /\ UNCHANGED <<config, ghost, probe>>

\* StreamRaises as if the loop were wrapped in try/finally pushing TTSStoppedFrame.
StreamRaisesStopped(c) ==
    /\ pc[c] = "L92"
    /\ trace' = [trace EXCEPT ![c] = @ \o <<TTSStoppedFrame, RaisedEvent>>]
    /\ pc' = [pc EXCEPT ![c] = "failed"]
    /\ UNCHANGED <<text, tts_started, audio, delivered>>
    /\ UNCHANGED <<config, ghost, probe>>

\* async for audio in results: the vendor stream raises.
StreamRaises(c) ==
    /\ pc[c] = "L92"
    /\ Emit(c, RaisedEvent)
    /\ pc' = [pc EXCEPT ![c] = "failed"]
    /\ UNCHANGED <<text, tts_started, audio, delivered>>
    /\ UNCHANGED <<config, ghost, probe>>

\* PushStarted with the flag left False: every chunk looks like the first one.
PushStartedFlagNotSet(c) ==
    /\ pc[c] = "L96"
    /\ Emit(c, TTSStartedFrame)
    /\ pc' = [pc EXCEPT ![c] = "L98"]
    /\ UNCHANGED <<text, tts_started, audio, delivered>>
    /\ UNCHANGED <<config, ghost, probe>>

\* PushStarted with the flag kept on the instance, shared by all the calls.
PushStartedSharedFlag(c) ==
    /\ pc[c] = "L96"
    /\ Emit(c, TTSStartedFrame)
    /\ tts_started' = [d \in CallIds |-> TRUE]
    /\ pc' = [pc EXCEPT ![c] = "L98"]
    /\ UNCHANGED <<text, audio, delivered>>
    /\ UNCHANGED <<config, ghost, probe>>

\* await self.push_frame(TTSStartedFrame()); tts_started = True
PushStarted(c) ==
    /\ pc[c] = "L96"
    /\ Emit(c, TTSStartedFrame)
    /\ tts_started' = [tts_started EXCEPT ![c] = TRUE]
    /\ pc' = [pc EXCEPT ![c] = "L98"]
    /\ UNCHANGED <<text, audio, delivered>>
    /\ UNCHANGED <<config, ghost, probe>>

\* await self.stop_ttfb_metrics()
StopTtfbMetrics(c) ==
    /\ pc[c] = "L98"
    /\ Emit(c, StopTtfbMetricsEvent)
    /\ pc' = [pc EXCEPT ![c] = "L99"]
    /\ UNCHANGED <<text, tts_started, audio, delivered>>
    /\ UNCHANGED <<config, ghost, probe>>

\* YieldFrame with the positional arguments of AudioRawFrame swapped.
YieldFrameSwappedArgs(c) ==
    /\ pc[c] = "L99"
    /\ Emit(c, AudioRawFrame(audio[c], NumChannels, sample_rate))
    /\ pc' = [pc EXCEPT ![c] = "yielded"]
    /\ UNCHANGED <<text, tts_started, audio, delivered>>
    /\ UNCHANGED <<config, ghost, probe>>

\* frame = AudioRawFrame(audio, self._sample_rate, 1); yield frame
YieldFrame(c) ==
    /\ pc[c] = "L99"
    /\ Emit(c, AudioRawFrame(audio[c], sample_rate, NumChannels))
    /\ pc' = [pc EXCEPT ![c] = "yielded"]
    /\ UNCHANGED <<text, tts_started, audio, delivered>>
    /\ UNCHANGED <<config, ghost, probe>>

\* await self.push_frame(TTSStoppedFrame()); the generator ends.
PushStopped(c) ==
    /\ pc[c] = "L102"
    /\ Emit(c, TTSStoppedFrame)
    /\ pc' = [pc EXCEPT ![c] = "done"]
    /\ UNCHANGED <<text, tts_started, audio, delivered>>
    /\ UNCHANGED <<config, ghost, probe>>

Next ==
    \/ \E m \in Models : SetModel(m)
    \/ \E v \in Voices : SetVoice(v)
    \/ \E c \in CallIds, t \in Texts : RunTts(c, t)
    \/ \E c \in CallIds : Anext(c)
    \/ \E c \in CallIds : Abandon(c)
    \/ \E c \in CallIds : StartTtsUsageMetrics(c)
    \/ \E c \in CallIds : StartTtfbMetrics(c)
    \/ \E c \in CallIds : GenerateReturns(c)
    \/ \E c \in CallIds : GenerateRaises(c)
    \/ \E c \in CallIds, bytes \in Chunks : NextChunk(c, bytes)
    \/ \E c \in CallIds : StreamEnds(c)
    \/ \E c \in CallIds : StreamRaises(c)
    \/ \E c \in CallIds : PushStarted(c)
    \/ \E c \in CallIds : StopTtfbMetrics(c)
    \/ \E c \in CallIds : YieldFrame(c)
    \/ \E c \in CallIds : PushStopped(c)

Spec == Init /\ [][Next]_vars

\* What moves call c forward when nothing fails and its consumer keeps pulling:
\* the consumer's pulls, the awaits of run_tts, the vendor's answers.
CallStep(c) ==
    \/ Anext(c)
    \/ StartTtsUsageMetrics(c)
    \/ StartTtfbMetrics(c)
    \/ GenerateReturns(c)
    \/ \E bytes \in Chunks : NextChunk(c, bytes)
    \/ StreamEnds(c)
    \/ PushStarted(c)
    \/ StopTtfbMetrics(c)
    \/ YieldFrame(c)
    \/ PushStopped(c)

\* The event loop resumes every coroutine that is ready; the vendor answers every
\* request and every wait for a chunk; the consumer pulls a generator it has
\* not abandoned.
\* The steps of the calls alone. set_model and set_voice are left out: they leave
\* every call variable unchanged, and no call step is enabled or disabled by the
\* voice or the model.
NextCalls ==
    \/ \E c \in CallIds, t \in Texts : RunTts(c, t)
    \/ \E c \in CallIds : CallStep(c)
    \/ \E c \in CallIds : Abandon(c)
    \/ \E c \in CallIds : GenerateRaises(c)
    \/ \E c \in CallIds : StreamRaises(c)

FairSpec == Init /\ [][NextCalls]_vars /\ \A c \in CallIds : WF_vars(CallStep(c))

(* --------------- direct calls of sample_rate_from_output_format --------- *)

\* Any adapter the constructor can build; the function has not been called yet.
InitRate ==
    /\ \E f \in OutputFormats, vs \in {"None", "VoiceSettings"}, osl \in {0, 3},
          v \in Voices, m \in Models :
          Constructed([output_format |-> f, voice_settings |-> vs,
                       optimize_streaming_latency |-> osl], v, m)
    /\ fmt_arg = "none"
    /\ rate_ret = 0

\* sample_rate_from_output_format(fmt) is called and returns.
SampleRateCall(fmt) ==
    /\ fmt_arg' = fmt
    /\ rate_ret' = sample_rate_from_output_format(fmt)
    /\ UNCHANGED <<config, calls, ghost>>

NextRate == \E fmt \in FormatStrings : SampleRateCall(fmt)

SpecRate == InitRate /\ [][NextRate]_vars

(* ------------------------- reading a call's trace ---------------------- *)

OfKind(tr, kinds) == SelectSeq(tr, LAMBDA e : e.kind \in kinds)
Count(c, kind) == Len(OfKind(trace[c], {kind}))

\* The units a call emitted: pushed markers and yielded audio frames, in order.
Units(c) == OfKind(trace[c], {"TTSStartedFrame", "AudioRawFrame", "TTSStoppedFrame"})
AudioFrames(c) == OfKind(trace[c], {"AudioRawFrame"})
Requests(c) == OfKind(trace[c], {"generate"})
Last(tr) == tr[Len(tr)]

\* The sample rates the documentation gives for the recognised output formats.
DocumentedRate ==
    [f \in OutputFormats |->
        IF f = "pcm_16000" THEN 16000
        ELSE IF f = "pcm_22050" THEN 22050
        ELSE IF f = "pcm_24000" THEN 24000
        ELSE 44100]

(* ------------------------------- claims -------------------------------- *)

\* C1: a call whose vendor stream delivered N >= 1 chunks and ended normally,
\* pulled to exhaustion, has emitted exactly N + 2 units: one TTSStartedFrame,
\* then one audio frame per vendor chunk carrying the chunks in delivery order,
\* then one TTSStoppedFrame.
C1_StartAudioStop ==
    \A c \in CallIds :
        (pc[c] = "done" /\ Len(delivered[c]) >= 1) =>
            LET u == Units(c)
                n == Len(delivered[c])
            IN  /\ Len(u) = n + 2
                /\ u[1] = TTSStartedFrame
                /\ \A i \in 1..n : /\ u[i + 1].kind = "AudioRawFrame"
                                   /\ u[i + 1].audio = delivered[c][i]
                /\ u[n + 2] = TTSStoppedFrame

C1_Witness ==
    \E c \in CallIds :
        /\ pc[c] = "done"
        /\ Len(delivered[c]) >= 2
        /\ delivered[c][1] # delivered[c][2]
        /\ Len(Units(c)) = Len(delivered[c]) + 2

\* C2: a call whose vendor stream ended normally after zero chunks has emitted
\* exactly one TTSStoppedFrame and nothing else; and no call has emitted a
\* TTSStartedFrame or an audio frame before its vendor delivered a first chunk.
C2_ZeroChunks ==
    \A c \in CallIds :
        /\ (pc[c] = "done" /\ delivered[c] = <<>>) => Units(c) = <<TTSStoppedFrame>>
        /\ delivered[c] = <<>> =>
              Count(c, "TTSStartedFrame") = 0 /\ Count(c, "AudioRawFrame") = 0

C2_Witness ==
    \E c \in CallIds :
        /\ pc[c] = "done"
        /\ delivered[c] = <<>>
        /\ Count(c, "generate") = 1
        /\ Count(c, "TTSStoppedFrame") = 1

\* C3 as claimed: stop_ttfb_metrics is invoked at most once in a call, never for
\* the second or a later chunk.
C3_StopTtfbOnce ==
    \A c \in CallIds : Count(c, "stop_ttfb_metrics") <= 1

\* C3 amended: stop_ttfb_metrics is invoked once for every vendor chunk of the
\* call (N times for N chunks, never without a chunk): the first invocation
\* directly follows the TTSStartedFrame pushed on arrival of the first chunk,
\* and every audio frame is directly preceded by one invocation.
C3_StopTtfbPerChunk ==
    \A c \in CallIds :
        LET tr == trace[c]
            n == Len(delivered[c])
            stops == Count(c, "stop_ttfb_metrics")
        IN  /\ stops = IF pc[c] \in {"L96", "L98"} THEN n - 1 ELSE n
            /\ Count(c, "TTSStartedFrame") = IF n = 0 \/ (n = 1 /\ pc[c] = "L96") THEN 0 ELSE 1
            /\ \A i \in 1..Len(tr) :
                  /\ tr[i] = TTSStartedFrame =>
                        (i = Len(tr) \/ tr[i + 1] = StopTtfbMetricsEvent)
                  /\ tr[i].kind = "AudioRawFrame" =>
                        (i > 1 /\ tr[i - 1] = StopTtfbMetricsEvent)

C3_Witness ==
    \E c \in CallIds :
        /\ pc[c] = "done"
        /\ Len(delivered[c]) = 2
        /\ Count(c, "stop_ttfb_metrics") = 2
        /\ Count(c, "TTSStartedFrame") = 1

\* C4: a call whose vendor call failed, at the request or while a chunk was
\* awaited, ended by raising to its consumer: the raise is the last thing the
\* call did, it stays failed, and it has emitted no TTSStoppedFrame, whatever
\* it had emitted before.
C4_FailureNoStopped ==
    \A c \in CallIds :
        /\ pc[c] = "failed" =>
              /\ Last(trace[c]) = RaisedEvent
              /\ Count(c, "raise") = 1
              /\ Count(c, "TTSStoppedFrame") = 0
        /\ Count(c, "raise") > 0 => pc[c] = "failed"

C4_Witness ==
    \E c, d \in CallIds :
        /\ pc[c] = "failed"
        /\ Count(c, "TTSStartedFrame") = 1
        /\ Count(c, "AudioRawFrame") >= 1
        /\ pc[d] = "failed"
        /\ delivered[d] = <<>>
        /\ Len(trace[d]) = 4

\* C5: sample_rate_from_output_format returns 16000, 22050, 24000 and 44100 for
\* "pcm_16000", "pcm_22050", "pcm_24000" and "pcm_44100", and 16000 for every
\* other string; it returns for every string.
C5_SampleRateMapping ==
    fmt_arg # "none" =>
        /\ fmt_arg = "pcm_16000" => rate_ret = 16000
        /\ fmt_arg = "pcm_22050" => rate_ret = 22050
        /\ fmt_arg = "pcm_24000" => rate_ret = 24000
        /\ fmt_arg = "pcm_44100" => rate_ret = 44100
        /\ fmt_arg \notin OutputFormats => rate_ret = 16000

C5_Witness ==
    /\ fmt_arg = "mp3_44100_128"
    /\ rate_ret = 16000

\* C6: every audio frame a call emitted carries the bytes of one vendor chunk of
\* that call unchanged (the i-th frame the i-th chunk), one channel, and the
\* sample rate documented for the output format given at construction; the
\* stored rate is that rate in every state, whatever set_model and set_voice did.
C6_AudioFrameStamp ==
    /\ sample_rate = DocumentedRate[output_format]
    /\ \A c \in CallIds :
          LET fs == AudioFrames(c)
          IN  /\ Len(fs) <= Len(delivered[c])
              /\ \A i \in 1..Len(fs) :
                    fs[i] = [kind |-> "AudioRawFrame",
                             audio |-> delivered[c][i],
                             sample_rate |-> DocumentedRate[output_format],
                             num_channels |-> 1]

C6_Witness ==
    \E c \in CallIds :
        /\ Len(AudioFrames(c)) >= 2
        /\ AudioFrames(c)[1].audio # AudioFrames(c)[2].audio
        /\ AudioFrames(c)[2].sample_rate = 24000
        /\ Requests(c)[1].model # DefaultModel
        /\ Requests(c)[1].voice # "v1"

Ended(c) == pc[c] \in {"done", "failed", "abandoned"}
Streaming(c) == pc[c] \in {"L92", "L96", "L98", "L99", "yielded", "L102"}
IssuesRequest(c) == pc[c] = "L81" /\ pc'[c] # "L81"

\* What C7 requires of one step.
C7_Step ==
    /\ model' = last_model_arg'
    /\ voice_id' = last_voice_arg'
    /\ \A c \in CallIds :
          /\ IssuesRequest(c) =>
                LET r == OfKind(trace'[c], {"generate"})
                IN  /\ Len(r) = 1
                    /\ r[1].model = last_model_arg
                    /\ r[1].voice = last_voice_arg
          /\ Ended(c) => trace'[c] = trace[c] /\ pc'[c] = pc[c]

C8_VisibleWhileStreaming ==
    \A c \in CallIds :
        Streaming(c) =>
            /\ Requests(c)[1].voice = voice_id
            /\ Requests(c)[1].model = model

\* What the amended C8 requires of one step.
C8_Step ==
    \A c \in CallIds :
        /\ IssuesRequest(c) =>
              LET r == OfKind(trace'[c], {"generate"})
              IN  /\ Len(r) = 1
                  /\ r[1].voice = voice_id
                  /\ r[1].model = model
        /\ Len(Requests(c)) = 1 => OfKind(trace'[c], {"generate"}) = Requests(c)
        /\ (model' # model \/ voice_id' # voice_id) =>
              trace'[c] = trace[c] /\ pc'[c] = pc[c]

\* C8 amended: a reconfiguration made while a call is in flight is visible to it
\* only if it completes before the call issues its vendor request: the request
\* carries the voice and model stored at the moment it is issued (no snapshot is
\* taken when run_tts is called), the request never changes once issued, and the
\* reconfiguring step itself changes nothing in any call.
C8_VisibleUntilRequest == [][C8_Step]_vars

C8_Witness ==
    \E c, d \in CallIds :
        /\ pc[c] = "L81"
        /\ entry_cfg[c].model # model
        /\ entry_cfg[c].voice # voice_id
        /\ Streaming(d)
        /\ Len(AudioFrames(d)) >= 1
        /\ Requests(d)[1].model # model
        /\ Requests(d)[1].voice # voice_id

\* C9: a call that has issued its vendor request, also one that then got zero
\* chunks or failed, started the usage metric first, then the ttfb metric, then
\* issued the request, and started each metric exactly once; no call starts a
\* metric twice.
C9_MetricsBeforeRequest ==
    \A c \in CallIds :
        /\ Count(c, "start_tts_usage_metrics") <= 1
        /\ Count(c, "start_ttfb_metrics") <= 1
        /\ (Streaming(c) \/ Ended(c)) =>
              /\ Len(trace[c]) >= 3
              /\ trace[c][1] = StartTtsUsageMetricsEvent(text[c])
              /\ trace[c][2] = StartTtfbMetricsEvent
              /\ trace[c][3].kind = "generate"
              /\ Count(c, "start_tts_usage_metrics") = 1
              /\ Count(c, "start_ttfb_metrics") = 1

C9_Witness ==
    \E c, d \in CallIds :
        /\ pc[c] = "failed"
        /\ Len(trace[c]) = 4
        /\ pc[d] = "done"
        /\ delivered[d] = <<>>
        /\ Count(d, "start_ttfb_metrics") = 1

\* What C10 requires of one step.
C10_Step ==
    \A c \in CallIds :
        LET r == Requests(c)
            r2 == OfKind(trace'[c], {"generate"})
        IN  /\ Len(r2) <= 1
            /\ Len(r) = 1 => r2 = r
            /\ IssuesRequest(c) => Len(r) = 0 /\ Len(r2) = 1
            /\ (Len(r) = 0 /\ Len(r2) = 1) =>
                  /\ pc[c] = "L81"
                  /\ r2[1] = [kind |-> "generate",
                              text |-> text[c],
                              voice |-> voice_id,
                              model |-> model,
                              output_format |-> output_format,
                              voice_settings |-> voice_settings,
                              optimize_streaming_latency |-> optimize_streaming_latency,
                              stream |-> TRUE]
            /\ (Streaming(c) \/ Ended(c))' => Len(r2) = 1

\* C10: a call issues exactly one vendor request, when it reaches the generate
\* statement: the request has stream = true and carries the call's text and the
\* adapter's voice, model, output format, voice settings and latency level as
\* stored at that moment; no call ever has a second request, a failed one included.
C10_OneRequest == [][C10_Step]_vars

C10_Witness ==
    \E c, d \in CallIds :
        /\ pc[c] = "failed"
        /\ Count(c, "generate") = 1
        /\ pc[d] = "done"
        /\ Count(d, "generate") = 1
        /\ Requests(d)[1].stream = TRUE
        /\ Requests(d)[1].voice_settings = "VoiceSettings"
        /\ Requests(d)[1].optimize_streaming_latency = 3

\* What C11 requires of one step.
C11_Step ==
    /\ UNCHANGED <<output_format, voice_settings, optimize_streaming_latency, sample_rate>>
    /\ last_model_arg' # last_model_arg =>
          /\ model' = last_model_arg'
          /\ UNCHANGED <<voice_id, calls>>
    /\ last_voice_arg' # last_voice_arg =>
          /\ voice_id' = last_voice_arg'
          /\ UNCHANGED <<model, calls>>
    /\ model' # model => last_model_arg' # last_model_arg
    /\ voice_id' # voice_id => last_voice_arg' # last_voice_arg
    /\ calls' # calls => UNCHANGED config

\* C11: a step that stores a new model (set_model) changes the model only and a
\* step that stores a new voice (set_voice) changes the voice only: the other
\* identifier, the output format, the sample rate, the voice settings and the
\* latency level stay, and no call issues a request, emits a frame or moves; a
\* step of a run_tts call changes no configuration field; set_model and
\* set_voice can be called with any argument in every state.
C11_FrameOfReconfiguration ==
    /\ [][C11_Step]_vars
    /\ [](\A m \in Models : ENABLED SetModel(m))
    /\ [](\A v \in Voices : ENABLED SetVoice(v))

C11_Witness ==
    \E c \in CallIds :
        /\ pc[c] = "yielded"
        /\ model # DefaultModel
        /\ voice_id = "v1"
        /\ Requests(c)[1].model = DefaultModel
        /\ sample_rate = 24000
        /\ voice_settings = "VoiceSettings"
        /\ optimize_streaming_latency = 3

\* C12: under FairSpec a call that was made ends: unless its vendor call fails
\* or its consumer abandons it, it reaches the end of run_tts, where the last
\* thing it did is its one TTSStoppedFrame; a call that has ended that way stays
\* ended and adds nothing to what it emitted.
C12_Terminates ==
    /\ \A c \in CallIds : (pc[c] = "created") ~> Ended(c)
    /\ [](\A c \in CallIds :
            pc[c] = "done" =>
                Last(trace[c]) = TTSStoppedFrame /\ Count(c, "TTSStoppedFrame") = 1)
    /\ [][\A c \in CallIds :
            pc[c] = "done" => pc'[c] = "done" /\ trace'[c] = trace[c]]_vars

C12_Witness ==
    \E c \in CallIds :
        /\ pc[c] = "done"
        /\ Len(delivered[c]) = 2
        /\ Last(trace[c]) = TTSStoppedFrame

\* What C13 requires of one step.
C13_Step ==
    \A c \in CallIds :
        LET r == Requests(c)
            r2 == OfKind(trace'[c], {"generate"})
        IN  /\ pc[c] \in {"idle", "created", "L78", "L79", "L81"} => Len(r) = 0
            /\ IssuesRequest(c) =>
                  /\ Len(r2) = 1
                  /\ <<r2[1].voice, r2[1].model>> = <<voice_id, model>>
            /\ (Streaming(c) \/ Ended(c)) =>
                  /\ r2 = r
                  /\ Len(r) = 1
                  /\ (voice_id' # voice_id \/ model' # model) =>
                        OfKind(trace'[c], {"AudioRawFrame"}) = AudioFrames(c)
                  /\ (trace'[c] # trace[c] /\ Last(trace'[c]).kind = "AudioRawFrame") =>
                        Last(trace'[c]) = AudioRawFrame(audio[c], sample_rate, NumChannels)

\* C13: a call reads the voice and the model once, in the step that issues its
\* vendor request: the request carries the values stored at that step, also when
\* set_voice or set_model changed them after the call's telemetry had started;
\* before that step the call has no request, after it the request stays as it
\* is, and a later set_voice or set_model changes neither it nor the call's
\* audio frames, which carry no voice or model.
C13_ReadAtRequest == [][C13_Step]_vars

C13_Witness ==
    \E c, d \in CallIds :
        /\ pc[c] = "L81"
        /\ Len(trace[c]) = 2
        /\ telemetry_cfg[c] = entry_cfg[c]
        /\ telemetry_cfg[c].voice # voice_id
        /\ telemetry_cfg[c].model # model
        /\ Ended(d)
        /\ Len(AudioFrames(d)) >= 1
        /\ Requests(d)[1].voice # voice_id
        /\ Requests(d)[1].model # model

\* A call has handled its first chunk once it is past the push of line 96.
FirstChunkHandled(c) ==
    /\ Len(delivered[c]) >= 1
    /\ ~(Len(delivered[c]) = 1 /\ pc[c] = "L96")

RECURSIVE StartedIn(_)
StartedIn(S) ==
    IF S = {} THEN 0
    ELSE LET c == CHOOSE x \in S : TRUE
         IN  Count(c, "TTSStartedFrame") + StartedIn(S \ {c})

\* C14: whatever the interleaving of the calls, the units of each call are its
\* own: one TTSStartedFrame exactly if the call has handled a first chunk, then
\* its audio frames carrying its own chunks in delivery order, and one
\* TTSStoppedFrame, last, exactly if it reached the end; the TTSStartedFrames of
\* all calls together number the calls that have handled a first chunk.
C14_PerCallUnits ==
    /\ \A c \in CallIds :
          LET u == Units(c)
              n == Len(AudioFrames(c))
          IN  /\ Count(c, "TTSStartedFrame") = IF FirstChunkHandled(c) THEN 1 ELSE 0
              /\ Count(c, "TTSStoppedFrame") = IF pc[c] = "done" THEN 1 ELSE 0
              /\ n <= Len(delivered[c])
              /\ n >= 1 => u[1] = TTSStartedFrame
              /\ \A i \in 1..n : /\ u[i + 1].kind = "AudioRawFrame"
                                 /\ u[i + 1].audio = delivered[c][i]
              /\ pc[c] = "done" => n = Len(delivered[c]) /\ Last(u) = TTSStoppedFrame
    /\ StartedIn(CallIds) = Cardinality({c \in CallIds : FirstChunkHandled(c)})

C14_Witness ==
    \E c, d \in CallIds :
        /\ c # d
        /\ pc[c] = "yielded"
        /\ pc[d] = "yielded"
        /\ Len(AudioFrames(c)) = 2
        /\ Len(AudioFrames(d)) = 1
        /\ StartedIn(CallIds) = 2

\* C15: a TTSStoppedFrame is emitted only by a call whose vendor stream is
\* exhausted, after the consumer resumed it past its last audio frame (every
\* delivered chunk has its frame), and it ends the call; a call abandoned at a
\* yield has emitted its TTSStartedFrame and at least one audio frame, has no
\* TTSStoppedFrame, and never does anything again.
C15_StoppedOnlyAtExhaustion ==
    /\ [](\A c \in CallIds :
            /\ Count(c, "TTSStoppedFrame") >= 1 =>
                  /\ pc[c] = "done"
                  /\ Last(trace[c]) = TTSStoppedFrame
                  /\ Len(AudioFrames(c)) = Len(delivered[c])
            /\ pc[c] = "abandoned" =>
                  /\ Count(c, "TTSStartedFrame") = 1
                  /\ Count(c, "AudioRawFrame") >= 1
                  /\ Count(c, "TTSStoppedFrame") = 0)
    /\ [][\A c \in CallIds :
            /\ pc[c] = "abandoned" => pc'[c] = "abandoned" /\ trace'[c] = trace[c]
            /\ (pc'[c] = "L102" /\ pc[c] # "L102") =>
                  pc[c] = "L92" /\ Len(AudioFrames(c)) = Len(delivered[c])
            /\ trace'[c] # trace[c] /\ Last(trace'[c]) = TTSStoppedFrame =>
                  pc[c] = "L102" /\ pc'[c] = "done"]_vars

C15_Witness ==
    \E c, d \in CallIds :
        /\ pc[c] = "abandoned"
        /\ Count(c, "TTSStartedFrame") = 1
        /\ Count(c, "AudioRawFrame") >= 1
        /\ Count(c, "TTSStoppedFrame") = 0
        /\ pc[d] = "done"
        /\ Count(d, "TTSStoppedFrame") = 1

====
